---- MODULE Spec2Model ----
(***************************************************************************)
(* Model of the asynchronous MongoDB logrus hook, mongohook/hook.go.       *)
(*                                                                         *)
(* Producers call Hook.Fire, which snapshots the entry and pushes a job   *)
(* on the bounded queue built by New; the queue's workers run Hook.exec   *)
(* (extras merge, filter, Exec, diagnostic write); Hook.Flush terminates  *)
(* the queue.  The queue itself is the package github.com/pm-esd/queue,   *)
(* whose source is not part of this repository's files: its operations    *)
(* (NewQueue, Run, Push, Terminate, the worker loop) follow section 4.1   *)
(* of the specification.                                                   *)
(***************************************************************************)
EXTENDS Integers, Sequences, FiniteSets, TLC

\* ------------------------------------------------------------------ bounds
\* Total number of Fire calls made by all producers together.
MaxFires == 3
\* Largest queue capacity (SetMaxQueues) drawn at construction.
MaxCapacity == 2

\* Default worker count of defaultOptions; also the largest count drawn.
DefaultMaxWorkers == 2

Producers == {"p1", "p2"}
Workers == 1..DefaultMaxWorkers
Ids == 1..MaxFires

\* --------------------------------------------------------- data of entries
Keys == {"a", "b"}

\* A logrus.Fields value: a finite map from keys to values.
Fields(ks, val) == [k \in ks |-> val]

EmptyFields == << >>

\* Entry field maps a producer submits: no field, or field a.
EntryDatas == {EmptyFields, Fields({"a"}, "entry")}

\* opts.extra: nil, or a map of static fields (b alone, or a and b).
NilExtra == [isNil |-> TRUE, m |-> EmptyFields]
BothExtra == [isNil |-> FALSE, m |-> Fields(Keys, "extra")]
Extras == {NilExtra, [isNil |-> FALSE, m |-> Fields({"b"}, "extra")], BothExtra}

\* opts.exec: nil (no SetExec), or a backend that always succeeds, always
\* fails with "disk full", or fails on some calls; or a backend some of
\* whose Exec calls never return.
Backends == {"nil", "ok", "fail", "flaky", "stall"}
\* opts.filter: nil, a filter returning its input, a filter redacting key a.
Filters == {"nil", "identity", "redact"}
\* opts.out: nil or a writer.
Sinks == {"nil", "sink"}

\* The time, level and message of a fired entry, and the values a producer
\* gives them when it reuses the entry object afterwards.
FiredValues == [time |-> "t0", level |-> "info", msg |-> "m0"]
ReusedValues == [time |-> "t1", level |-> "error", msg |-> "m1"]
ReusedData == Fields({"b"}, "reused")

\* A job's payload: the entry made by copyEntry.  shared tells whether its
\* Data is the very map object of the producer's entry.
NoJob ==
    [id |-> 0, data |-> EmptyFields, time |-> "", level |-> "", msg |-> "",
     shared |-> FALSE]
NoEntry ==
    [data |-> EmptyFields, time |-> "", level |-> "", msg |-> "", caller |-> FALSE]
NoErr == "nil"

\* ------------------------------------------------------ the caller's stack
\* pc := make([]uintptr, 3, 3)
WindowSize == 3
\* runtime.Callers(6, pc): skip 0 is Callers itself.
CallersSkip == 6
\* runtime.Caller(8): skip 0 is the caller of Caller, so it reads the frame
\* runtime.Callers would find with skip 9, the one after the window.
CallerSkip == 8
FallbackIndex == (CallerSkip + 1) - CallersSkip + 1

\* A frame is a function of the logging library or of the application.
FrameKinds == {"logrus", "app"}
\* The stack from the first frame of the window upwards; frames above the
\* fallback's are never read.
Stacks == UNION {[1..n -> FrameKinds] : n \in 0..FallbackIndex}
NoStack == << >>

\* fmt.Sprintf("%s:%d", file, line) and path.Base(name) of the frame at i.
SiteFile(i) == <<"w1.go:11", "w2.go:22", "w3.go:33", "up.go:44">>[i]
SiteFunc(i) == <<"pkg.W1", "pkg.W2", "pkg.W3", "pkg.Up">>[i]

VARIABLES
    opts,        \* Hook.opts
    q,           \* Hook.q: [cap, workers, state]
    buf,         \* the queue's buffer of pending jobs
    wpc,         \* each worker's position in its loop / in Hook.exec
    wjob,        \* the entry a worker's pipeline holds
    werr,        \* err of Hook.exec
    ppc,         \* each producer's position in Hook.Fire
    pjob,        \* the snapshot a producer is pushing
    flushpc,     \* position of the caller of Hook.Flush
    crashed,     \* the process died of an unrecovered panic
    nextId,      \* identity of the next entry object
    sink,        \* writes received by opts.out
    persisted,   \* entries the backend stored
    hist,        \* observations of the run, per entry
    atFlush,     \* observations made when Flush was called
    orig,        \* the producers' own entry objects, per entry
    pstack       \* the call stack above a producer's running Fire

vars == <<opts, q, buf, wpc, wjob, werr, ppc, pjob, flushpc, crashed, nextId,
          sink, persisted, hist, atFlush, orig, pstack>>

\* ------------------------------------------------------------- the queue
NewQueue(capacity, workerCount) ==
    [cap |-> capacity, workers |-> workerCount, state |-> "created"]

\* Run starts all workers.
QueueRun(qu) == [qu EXCEPT !.state = "running"]

\* Push: enqueue when there is room; block while the buffer is full; a
\* queue that accepts no more jobs lets the caller go without the job.
QueuePush(job) ==
    \/ /\ q.state = "running"
       /\ Len(buf) < q.cap
       /\ buf' = Append(buf, job)
    \/ /\ q.state # "running"
       /\ buf' = buf

\* Terminate, first half: no more jobs are accepted.
QueueTerminateSignal == q' = [q EXCEPT !.state = "terminating"]

\* Mutant: Terminate gives up on a worker whose callback does not return.
QueueDrainedGivingUp ==
    buf = << >> /\ \A w \in Workers : wpc[w] \in {"idle", "hung"}

\* Terminate, second half: every buffered and in-flight job has completed.
QueueDrained == buf = << >> /\ \A w \in Workers : wpc[w] = "idle"

QueueTerminateDone == q' = [q EXCEPT !.state = "terminated"]

\* -------------------------------------------------------------- the hook
NewHookQueueSwapped(o) == QueueRun(NewQueue(o.maxWorkers, o.maxQueues))

NewHookQueue(o) == QueueRun(NewQueue(o.maxQueues, o.maxWorkers))

AllOptions ==
    [maxQueues : 1..MaxCapacity, maxWorkers : Workers, extra : Extras,
     exec : Backends, filter : Filters, out : Sinks]

\* The option values a hook is constructed with: every queue geometry with
\* every deterministic backend under one set of field options, the backend
\* failing on some calls and every combination of field options (extra,
\* filter, out) under the smallest geometry.
FieldDefaults(o) == o.extra = BothExtra /\ o.filter = "nil" /\ o.out = "sink"
SmallGeometry(o) == o.maxQueues = 1 /\ o.maxWorkers = 1

OptionSets ==
    {o \in AllOptions :
        \/ FieldDefaults(o) /\ o.exec \in {"nil", "ok", "fail"}
        \/ FieldDefaults(o) /\ SmallGeometry(o) /\ o.exec = "flaky"
        \/ SmallGeometry(o) /\ o.exec = "fail"}

NoHist ==
    [given |-> EmptyFields, submitted |-> EmptyFields, by |-> "none",
     ret |-> "none", retState |-> "none",
     startedAfterFlush |-> FALSE, enq |-> FALSE,
     execs |-> 0, execArg |-> EmptyFields, failed |-> 0, done |-> FALSE]

\* The state New returns, for options drawn from the set O.
InitWith(O) ==
    /\ opts \in O
    /\ q = NewHookQueue(opts)
    /\ buf = << >>
    /\ wpc = [w \in Workers |-> "idle"]
    /\ wjob = [w \in Workers |-> NoJob]
    /\ werr = [w \in Workers |-> NoErr]
    /\ ppc = [p \in Producers |-> "idle"]
    /\ pjob = [p \in Producers |-> NoJob]
    /\ flushpc = "none"
    /\ crashed = FALSE
    /\ nextId = 1
    /\ sink = << >>
    /\ persisted = {}
    /\ hist = [i \in Ids |-> NoHist]
    /\ atFlush = [returned |-> {}, pending |-> {}, firing |-> FALSE]
    /\ orig = [i \in Ids |-> NoEntry]
    /\ pstack = [p \in Producers |-> NoStack]

Init == InitWith(OptionSets)

\* Mutant: the snapshot keeps the producer's own field map.
copyEntryAlias(i, e) ==
    [id |-> i, data |-> e.data, time |-> e.time, level |-> e.level,
     msg |-> e.msg, shared |-> TRUE]

\* Hook.copyEntry: a new entry with a fresh field map holding the same keys,
\* and the time, level and message of e.  i is the identity of e.
copyEntry(i, e) ==
    [id |-> i, data |-> [k \in DOMAIN e.data |-> e.data[k]], time |-> e.time,
     level |-> e.level, msg |-> e.msg, shared |-> FALSE]

\* entry.Data["file"] = fileVal; entry.Data["func"] = path.Base(name)
SetSite(data, i) ==
    [k \in DOMAIN data \cup {"file", "func"} |->
        IF k = "file" THEN SiteFile(i)
        ELSE IF k = "func" THEN SiteFunc(i) ELSE data[k]]

\* cnt := runtime.Callers(6, pc)
CallersCount(stack) == IF Len(stack) < WindowSize THEN Len(stack) ELSE WindowSize

\* _, _, _, ok := runtime.Caller(8)
CallerOk(stack) == Len(stack) >= FallbackIndex

\* Mutant: the break is missing, so the frames after the first one that
\* qualifies are looked at as well.
RECURSIVE ResolveFromNoBreak(_, _, _)
ResolveFromNoBreak(data, stack, i) ==
    IF i > CallersCount(stack) THEN data
    ELSE IF stack[i] # "logrus" THEN ResolveFromNoBreak(SetSite(data, i), stack, i + 1)
    ELSE ResolveFromNoBreak(
             IF CallerOk(stack) THEN SetSite(data, FallbackIndex) ELSE data,
             stack, i + 1)

\* The loop of Fire over the window, from frame i on: the first frame that
\* is not the logging library's sets file and func and ends the loop; every
\* frame of the library met before it sets them from runtime.Caller(8).
RECURSIVE ResolveFrom(_, _, _)
ResolveFrom(data, stack, i) ==
    IF i > CallersCount(stack) THEN data
    ELSE IF stack[i] # "logrus" THEN SetSite(data, i)
    ELSE ResolveFrom(IF CallerOk(stack) THEN SetSite(data, FallbackIndex) ELSE data,
                     stack, i + 1)

\* Mutant: the test of entry.HasCaller() is missing.
ResolveCallSiteAlways(e, stack) == ResolveFrom(e.data, stack, 1)

\* The call-site part of Fire, on the fields of an entry.
ResolveCallSite(e, stack) ==
    IF e.caller THEN ResolveFrom(e.data, stack, 1) ELSE e.data

\* Hook.Fire up to the snapshot, for an entry with fields d, with caller
\* metadata or not, fired under the given stack; who is the producer to
\* remember for the entry.
FireEntry(p, d, caller, stack, who) ==
    LET given == [data |-> d, time |-> FiredValues.time,
                  level |-> FiredValues.level, msg |-> FiredValues.msg,
                  caller |-> caller]
        entry == [given EXCEPT !.data = ResolveCallSite(given, stack)]
        snap == copyEntry(nextId, entry)
    IN
    /\ ~crashed
    /\ ppc[p] = "idle"
    /\ nextId <= MaxFires
    /\ orig' = [orig EXCEPT ![nextId] = entry]
    /\ pstack' = [pstack EXCEPT ![p] = stack]
    /\ pjob' = [pjob EXCEPT ![p] = snap]
    /\ hist' = [hist EXCEPT ![nextId].given = d,
                            ![nextId].submitted = entry.data,
                            ![nextId].by = who,
                            ![nextId].startedAfterFlush = (flushpc = "returned")]
    /\ ppc' = [ppc EXCEPT ![p] = "push"]
    /\ nextId' = nextId + 1
    /\ UNCHANGED <<opts, q, buf, wpc, wjob, werr, flushpc, crashed, sink,
                   persisted, atFlush>>

\* A producer fires an entry without caller metadata.
FireBegin(p) ==
    \E d \in EntryDatas : FireEntry(p, d, FALSE, NoStack, "any")

\* Mutant: Fire reports a missing backend to its caller.
FireResultNoBackend == IF opts.exec = "nil" THEN "no backend" ELSE "nil"

\* The value Fire returns.
FireResult == "nil"

\* Mutant: a Push that gives up when the buffer is full.
FirePushDrop(p) ==
    /\ ~crashed
    /\ ppc[p] = "push"
    /\ \/ QueuePush(pjob[p])
       \/ q.state = "running" /\ Len(buf) >= q.cap /\ buf' = buf
    /\ hist' = [hist EXCEPT ![pjob[p].id].ret = FireResult,
                            ![pjob[p].id].retState = q.state,
                            ![pjob[p].id].enq = (buf' # buf)]
    /\ ppc' = [ppc EXCEPT ![p] = "idle"]
    /\ pjob' = [pjob EXCEPT ![p] = NoJob]
    /\ pstack' = [pstack EXCEPT ![p] = NoStack]
    /\ UNCHANGED <<opts, q, wpc, wjob, werr, flushpc, crashed, nextId, sink,
                   persisted, atFlush, orig>>

\* Mutant: the Push runs in a goroutine of its own, so the job of a later
\* Fire may land in the buffer ahead of an earlier one's.
FirePushUnordered(p) ==
    /\ ~crashed
    /\ ppc[p] = "push"
    /\ \/ /\ q.state = "running"
          /\ Len(buf) < q.cap
          /\ \E k \in 0..Len(buf) :
                buf' = SubSeq(buf, 1, k) \o <<pjob[p]>> \o SubSeq(buf, k + 1, Len(buf))
       \/ /\ q.state # "running"
          /\ buf' = buf
    /\ hist' = [hist EXCEPT ![pjob[p].id].ret = FireResult,
                            ![pjob[p].id].retState = q.state,
                            ![pjob[p].id].enq = (buf' # buf)]
    /\ ppc' = [ppc EXCEPT ![p] = "idle"]
    /\ pjob' = [pjob EXCEPT ![p] = NoJob]
    /\ pstack' = [pstack EXCEPT ![p] = NoStack]
    /\ UNCHANGED <<opts, q, wpc, wjob, werr, flushpc, crashed, nextId, sink,
                   persisted, atFlush, orig>>

\* Mutant: Fire hands the job to a worker itself and waits for a free one.
FirePushSync(p) ==
    /\ ~crashed
    /\ ppc[p] = "push"
    /\ \E w \in Workers : wpc[w] = "idle"
    /\ QueuePush(pjob[p])
    /\ hist' = [hist EXCEPT ![pjob[p].id].ret = FireResult,
                            ![pjob[p].id].retState = q.state,
                            ![pjob[p].id].enq = (buf' # buf)]
    /\ ppc' = [ppc EXCEPT ![p] = "idle"]
    /\ pjob' = [pjob EXCEPT ![p] = NoJob]
    /\ pstack' = [pstack EXCEPT ![p] = NoStack]
    /\ UNCHANGED <<opts, q, wpc, wjob, werr, flushpc, crashed, nextId, sink,
                   persisted, atFlush, orig>>

\* Hook.Fire from the Push to the return.
FirePush(p) ==
    /\ ~crashed
    /\ ppc[p] = "push"
    /\ QueuePush(pjob[p])
    /\ hist' = [hist EXCEPT ![pjob[p].id].ret = FireResult,
                            ![pjob[p].id].retState = q.state,
                            ![pjob[p].id].enq = (buf' # buf)]
    /\ ppc' = [ppc EXCEPT ![p] = "idle"]
    /\ pjob' = [pjob EXCEPT ![p] = NoJob]
    /\ pstack' = [pstack EXCEPT ![p] = NoStack]
    /\ UNCHANGED <<opts, q, wpc, wjob, werr, flushpc, crashed, nextId, sink,
                   persisted, atFlush, orig>>

\* A worker of the queue takes the oldest pending job and runs its callback.
WorkerTake(w) ==
    /\ ~crashed
    /\ w <= q.workers
    /\ q.state \in {"running", "terminating"}
    /\ wpc[w] = "idle"
    /\ buf # << >>
    /\ wjob' = [wjob EXCEPT ![w] = Head(buf)]
    /\ buf' = Tail(buf)
    /\ wpc' = [wpc EXCEPT ![w] = "merge"]
    /\ UNCHANGED <<opts, q, werr, ppc, pjob, flushpc, crashed, nextId, sink,
                   persisted, hist, atFlush, orig,
                   pstack>>

\* Mutant: the extras overwrite the entry's own fields.
MergeExtraOverwrite(data, extra) ==
    IF extra.isNil THEN data
    ELSE [k \in DOMAIN data \cup DOMAIN extra.m |->
            IF k \in DOMAIN extra.m THEN extra.m[k] ELSE data[k]]

\* Mutant: the presence test is inverted, so no missing key is ever added.
MergeExtraInverted(data, extra) ==
    IF extra.isNil THEN data
    ELSE [k \in DOMAIN data |->
            IF k \in DOMAIN extra.m THEN extra.m[k] ELSE data[k]]

\* The extras merge of Hook.exec: a key of extra is set only when the entry
\* does not have it.
MergeExtra(data, extra) ==
    IF extra.isNil THEN data
    ELSE [k \in DOMAIN data \cup DOMAIN extra.m |->
            IF k \in DOMAIN data THEN data[k] ELSE extra.m[k]]

\* Mutant: the merge also stores the entry's fields in the configured extras.
ExecMergeIntoExtra(w) ==
    /\ ~crashed
    /\ wpc[w] = "merge"
    /\ wjob' = [wjob EXCEPT ![w].data = MergeExtra(wjob[w].data, opts.extra)]
    /\ opts' = IF opts.extra.isNil THEN opts
               ELSE [opts EXCEPT !.extra.m = wjob'[w].data]
    /\ orig' = IF wjob[w].shared
               THEN [orig EXCEPT ![wjob[w].id].data = wjob'[w].data]
               ELSE orig
    /\ wpc' = [wpc EXCEPT ![w] = "filter"]
    /\ UNCHANGED <<q, buf, werr, ppc, pjob, flushpc, crashed, nextId,
                   sink, persisted, hist, atFlush, pstack>>

\* The merge writes into the map the job's entry holds: the same writes land
\* in the producer's entry when that map is the producer's own.
ExecMerge(w) ==
    /\ ~crashed
    /\ wpc[w] = "merge"
    /\ wjob' = [wjob EXCEPT ![w].data = MergeExtra(wjob[w].data, opts.extra)]
    /\ orig' = IF wjob[w].shared
               THEN [orig EXCEPT ![wjob[w].id].data = wjob'[w].data]
               ELSE orig
    /\ wpc' = [wpc EXCEPT ![w] = "filter"]
    /\ UNCHANGED <<opts, q, buf, werr, ppc, pjob, flushpc, crashed, nextId,
                   sink, persisted, hist, atFlush, pstack>>

\* The configured FilterHandle applied to an entry.
Redact(data) == [k \in DOMAIN data |-> IF k = "a" THEN "***" ELSE data[k]]

ApplyFilter(filter, e) ==
    IF filter = "redact" THEN [e EXCEPT !.data = Redact(e.data)] ELSE e

\* Mutant: without a filter the pipeline returns before calling Exec.
ExecFilterEarlyReturn(w) ==
    /\ ~crashed
    /\ wpc[w] = "filter"
    /\ IF opts.filter # "nil"
       THEN /\ wjob' = [wjob EXCEPT ![w] = ApplyFilter(opts.filter, wjob[w])]
            /\ wpc' = [wpc EXCEPT ![w] = "exec"]
            /\ hist' = hist
       ELSE /\ wjob' = [wjob EXCEPT ![w] = NoJob]
            /\ wpc' = [wpc EXCEPT ![w] = "idle"]
            /\ hist' = [hist EXCEPT ![wjob[w].id].done = TRUE]
    /\ UNCHANGED <<opts, q, buf, werr, ppc, pjob, flushpc, crashed, nextId,
                   sink, persisted, atFlush, orig,
                   pstack>>

\* Mutant: the filter is called and its return value is dropped.
ExecFilterDiscard(w) ==
    /\ ~crashed
    /\ wpc[w] = "filter"
    /\ wpc' = [wpc EXCEPT ![w] = "exec"]
    /\ UNCHANGED <<opts, q, buf, wjob, werr, ppc, pjob, flushpc, crashed, nextId,
                   sink, persisted, hist, atFlush, orig,
                   pstack>>

\* if h.opts.filter != nil { entry = h.opts.filter(entry) }
ExecFilter(w) ==
    /\ ~crashed
    /\ wpc[w] = "filter"
    /\ wjob' = [wjob EXCEPT ![w] =
                  IF opts.filter # "nil" THEN ApplyFilter(opts.filter, wjob[w])
                  ELSE wjob[w]]
    /\ wpc' = [wpc EXCEPT ![w] = "exec"]
    /\ UNCHANGED <<opts, q, buf, werr, ppc, pjob, flushpc, crashed, nextId,
                   sink, persisted, hist, atFlush, orig,
                   pstack>>

\* The outcome of an Exec call that never returns.
Hang == "hang"

\* The errors a backend's Exec may return.
ExecResults(backend) ==
    CASE backend = "ok" -> {NoErr}
      [] backend = "fail" -> {"disk full"}
      [] backend = "flaky" -> {NoErr, "timeout"}
      [] backend = "stall" -> {NoErr, Hang}

\* err := h.opts.exec.Exec(entry); a nil backend is a nil dereference,
\* which panics in the worker's goroutine and ends the process; a call that
\* never returns leaves the worker inside it.
ExecCall(w) ==
    /\ ~crashed
    /\ wpc[w] = "exec"
    /\ \/ /\ opts.exec = "nil"
          /\ crashed' = TRUE
          /\ UNCHANGED <<werr, wpc, persisted, hist>>
       \/ /\ opts.exec # "nil"
          /\ \E err \in ExecResults(opts.exec) :
               /\ werr' = [werr EXCEPT ![w] = IF err = Hang THEN NoErr ELSE err]
               /\ persisted' = IF err = NoErr THEN persisted \cup {wjob[w].id}
                                ELSE persisted
               /\ hist' = [hist EXCEPT
                             ![wjob[w].id].execs = @ + 1,
                             ![wjob[w].id].execArg = wjob[w].data,
                             ![wjob[w].id].failed =
                                 IF err \in {NoErr, Hang} THEN @ ELSE @ + 1]
               /\ wpc' = [wpc EXCEPT ![w] = IF err = Hang THEN "hung" ELSE "report"]
          /\ UNCHANGED crashed
    /\ UNCHANGED <<opts, q, buf, wjob, ppc, pjob, flushpc, nextId, sink, atFlush, orig,
                   pstack>>

\* fmt.Fprintf(h.opts.out, "[Mongo-Hook] Execution error: %s", err.Error())
FormatError(err) == [prefix |-> "[Mongo-Hook] Execution error: ", msg |-> err]

\* Mutant: the error test is inverted, so only successes are reported.
ExecReportInverted(w) ==
    /\ ~crashed
    /\ wpc[w] = "report"
    /\ sink' = IF werr[w] = NoErr /\ opts.out # "nil"
               THEN Append(sink, FormatError(werr[w])) ELSE sink
    /\ hist' = [hist EXCEPT ![wjob[w].id].done = TRUE]
    /\ wpc' = [wpc EXCEPT ![w] = "idle"]
    /\ wjob' = [wjob EXCEPT ![w] = NoJob]
    /\ werr' = [werr EXCEPT ![w] = NoErr]
    /\ UNCHANGED <<opts, q, buf, ppc, pjob, flushpc, crashed, nextId,
                   persisted, atFlush, orig,
                   pstack>>

\* The end of Hook.exec: the diagnostic write, and the job's callback returns.
ExecReport(w) ==
    /\ ~crashed
    /\ wpc[w] = "report"
    /\ sink' = IF werr[w] # NoErr /\ opts.out # "nil"
               THEN Append(sink, FormatError(werr[w])) ELSE sink
    /\ hist' = [hist EXCEPT ![wjob[w].id].done = TRUE]
    /\ wpc' = [wpc EXCEPT ![w] = "idle"]
    /\ wjob' = [wjob EXCEPT ![w] = NoJob]
    /\ werr' = [werr EXCEPT ![w] = NoErr]
    /\ UNCHANGED <<opts, q, buf, ppc, pjob, flushpc, crashed, nextId,
                   persisted, atFlush, orig,
                   pstack>>

InFlight == {wjob[w].id : w \in {v \in Workers : wpc[v] # "idle"}}
Buffered == {buf[i].id : i \in 1..Len(buf)}
Returned == {i \in Ids : hist[i].ret # "none"}

\* Mutant: Flush returns without terminating the queue.
FlushCallNoTerminate ==
    /\ ~crashed
    /\ flushpc = "none"
    /\ flushpc' = "returned"
    /\ atFlush' = [returned |-> Returned, pending |-> InFlight \cup Buffered,
                   firing |-> \E p \in Producers : ppc[p] # "idle"]
    /\ UNCHANGED <<opts, q, buf, wpc, wjob, werr, ppc, pjob, crashed, nextId,
                   sink, persisted, hist, orig,
                   pstack>>

\* Hook.Flush calls q.Terminate.
FlushCall ==
    /\ ~crashed
    /\ flushpc = "none"
    /\ QueueTerminateSignal
    /\ flushpc' = "waiting"
    /\ atFlush' = [returned |-> Returned, pending |-> InFlight \cup Buffered,
                   firing |-> \E p \in Producers : ppc[p] # "idle"]
    /\ UNCHANGED <<opts, buf, wpc, wjob, werr, ppc, pjob, crashed, nextId,
                   sink, persisted, hist, orig,
                   pstack>>

\* Mutant: Flush does not wait for Terminate (it runs in the background).
FlushReturnNoWait ==
    /\ ~crashed
    /\ flushpc = "waiting"
    /\ QueueTerminateDone
    /\ flushpc' = "returned"
    /\ UNCHANGED <<opts, buf, wpc, wjob, werr, ppc, pjob, crashed, nextId,
                   sink, persisted, hist, atFlush, orig,
                   pstack>>

\* q.Terminate returns, and so does Flush.
FlushReturn ==
    /\ ~crashed
    /\ flushpc = "waiting"
    /\ QueueDrained
    /\ QueueTerminateDone
    /\ flushpc' = "returned"
    /\ UNCHANGED <<opts, buf, wpc, wjob, werr, ppc, pjob, crashed, nextId,
                   sink, persisted, hist, atFlush, orig,
                   pstack>>

\* After Fire has returned, the producer reuses its entry object: it sets
\* other fields in its map and another time, level and message.  A job whose
\* entry holds that same map sees the new fields.
SeenThrough(j, i, d) == IF j.id = i /\ j.shared THEN [j EXCEPT !.data = d] ELSE j

ProducerReuse(i) ==
    /\ ~crashed
    /\ hist[i].ret # "none"
    /\ orig[i].msg = FiredValues.msg
    /\ orig' = [orig EXCEPT ![i] =
                  [data |-> ReusedData, time |-> ReusedValues.time,
                   level |-> ReusedValues.level, msg |-> ReusedValues.msg,
                   caller |-> orig[i].caller]]
    /\ buf' = [k \in 1..Len(buf) |-> SeenThrough(buf[k], i, ReusedData)]
    /\ wjob' = [w \in Workers |-> SeenThrough(wjob[w], i, ReusedData)]
    /\ UNCHANGED <<opts, q, wpc, werr, ppc, pjob, flushpc, crashed, nextId,
                   sink, persisted, hist, atFlush, pstack>>

Next ==
    \/ \E p \in Producers : FireBegin(p)
    \/ \E p \in Producers : FirePush(p)
    \/ \E w \in Workers : WorkerTake(w)
    \/ \E w \in Workers : ExecMerge(w)
    \/ \E w \in Workers : ExecFilter(w)
    \/ \E w \in Workers : ExecCall(w)
    \/ \E w \in Workers : ExecReport(w)
    \/ FlushCall
    \/ FlushReturn

Spec == Init /\ [][Next]_vars

\* Producers that reuse their entry objects, under the default field
\* options, a working backend, one worker and a buffer of one job.
InitSnapshot ==
    /\ Init
    /\ FieldDefaults(opts)
    /\ SmallGeometry(opts)
    /\ opts.exec = "ok"

NextSnapshot ==
    \/ Next
    \/ \E i \in Ids : ProducerReuse(i)

SpecSnapshot == InitSnapshot /\ [][NextSnapshot]_vars

\* A producer fires an entry with field a and without caller metadata, and
\* is remembered as the one that fired it.
FireBeginBy(p) ==
    FireEntry(p, Fields({"a"}, "entry"), FALSE, NoStack, p)

\* Every queue geometry, a working backend, the default field options.
InitOrder == Init /\ FieldDefaults(opts) /\ opts.exec = "ok"

NextOrder ==
    \/ \E p \in Producers : FireBeginBy(p)
    \/ \E p \in Producers : FirePush(p)
    \/ \E w \in Workers : WorkerTake(w)
    \/ \E w \in Workers : ExecMerge(w)
    \/ \E w \in Workers : ExecFilter(w)
    \/ \E w \in Workers : ExecCall(w)
    \/ \E w \in Workers : ExecReport(w)
    \/ FlushCall
    \/ FlushReturn

SpecOrder == InitOrder /\ [][NextOrder]_vars

\* Producer p fires an entry, with caller metadata or without, from under
\* any stack.
FireBeginCaller(p) ==
    \E caller \in BOOLEAN : \E stack \in Stacks :
        FireEntry(p, Fields({"a"}, "entry"), caller, stack, "any")

\* The smallest geometry, a working backend, the default field options.
InitCaller == Init /\ FieldDefaults(opts) /\ SmallGeometry(opts) /\ opts.exec = "ok"

\* One producer fires, the workers run the pipeline, nobody flushes.
NextCaller ==
    \/ FireBeginCaller("p1")
    \/ FirePush("p1")
    \/ \E w \in Workers : WorkerTake(w)
    \/ \E w \in Workers : ExecMerge(w)
    \/ \E w \in Workers : ExecFilter(w)
    \/ \E w \in Workers : ExecCall(w)
    \/ \E w \in Workers : ExecReport(w)

SpecCaller == InitCaller /\ [][NextCaller]_vars

\* Every extras map and filter, over the smallest geometry, with a sink and
\* a backend whose calls fail or succeed.
PipelineOptions ==
    {o \in AllOptions : SmallGeometry(o) /\ o.exec = "flaky" /\ o.out = "sink"}

InitPipeline == InitWith(PipelineOptions)

SpecPipeline == InitPipeline /\ [][Next]_vars

\* A backend some of whose calls never return, or one that always fails,
\* with one or two workers and a buffer of one job.
HangOptions ==
    {o \in AllOptions :
        FieldDefaults(o) /\ o.maxQueues = 1 /\ o.exec \in {"stall", "fail"}}

InitHang == InitWith(HangOptions)

SpecHang == InitHang /\ [][Next]_vars

WorkerStep(w) ==
    WorkerTake(w) \/ ExecMerge(w) \/ ExecFilter(w) \/ ExecCall(w) \/ ExecReport(w)

\* Two workers, a buffer of one job, and a backend some of whose calls never
\* return.
StallOptions ==
    {o \in HangOptions : o.maxWorkers = DefaultMaxWorkers /\ o.exec = "stall"}

InitStall == InitWith(StallOptions)

FireBeginPlain(p) == FireEntry(p, Fields({"a"}, "entry"), FALSE, NoStack, "any")

NextStall ==
    \/ \E p \in Producers : FireBeginPlain(p)
    \/ \E p \in Producers : FirePush(p)
    \/ \E w \in Workers : WorkerTake(w)
    \/ \E w \in Workers : ExecMerge(w)
    \/ \E w \in Workers : ExecFilter(w)
    \/ \E w \in Workers : ExecCall(w)
    \/ \E w \in Workers : ExecReport(w)
    \/ FlushCall
    \/ FlushReturn

\* Every goroutine that can run is run: each worker's loop, and the caller
\* of Flush once Terminate can return.
FairSpecStall ==
    /\ InitStall
    /\ [][NextStall]_vars
    /\ \A w \in Workers : WF_vars(WorkerStep(w))
    /\ WF_vars(FlushReturn)

\* ---------------------------------------------------------------- claims
Fired == {i \in Ids : i < nextId}

RECURSIVE SumFailed(_)
SumFailed(n) == IF n = 0 THEN 0 ELSE hist[n].failed + SumFailed(n - 1)

\* d is the field map s with the extras x merged in, the entry's keys winning.
IsInputPlusExtras(d, s, x) ==
    LET xs == IF x.isNil THEN {} ELSE DOMAIN x.m IN
    /\ DOMAIN d = DOMAIN s \cup xs
    /\ \A k \in DOMAIN s : d[k] = s[k]
    /\ \A k \in xs \ DOMAIN s : d[k] = x.m[k]

\* C1: with a backend that always succeeds, once Flush has returned every
\* entry whose Fire returned before Flush was called has been passed to Exec
\* exactly once and its pipeline is over; this holds in every later state
\* too, so no Exec for such an entry starts after Flush returned.
C1_ExactlyOnceByFlush ==
    (opts.exec = "ok" /\ flushpc = "returned") =>
        \A i \in atFlush.returned : hist[i].execs = 1 /\ hist[i].done

C1_Witness ==
    /\ opts.exec = "ok"
    /\ flushpc = "returned"
    /\ Cardinality(atFlush.returned) >= 2
    /\ \A i \in atFlush.returned : i \in persisted

\* C2: with a working backend no state is a deadlock (a blocked Fire or a
\* blocked Flush always leaves some worker or the blocked call itself able
\* to step), and when Flush was called after every Fire had returned, every
\* entry fired has been passed to Exec by the time Flush returns.
C2_NoDeadlockNoLoss ==
    opts.exec = "ok" =>
        /\ \A p \in Producers :
              (ppc[p] = "push" /\ ~ENABLED FirePush(p)) =>
                  \E w \in Workers : ENABLED WorkerStep(w)
        /\ (flushpc = "waiting" /\ ~ENABLED FlushReturn) =>
              \E w \in Workers : ENABLED WorkerStep(w)
        /\ (flushpc = "returned" /\ ~atFlush.firing) =>
              \A i \in atFlush.returned : hist[i].execs >= 1 /\ i \in persisted

C2_Witness ==
    /\ opts.exec = "ok"
    /\ flushpc = "returned"
    /\ ~atFlush.firing
    /\ Cardinality(atFlush.returned) > opts.maxQueues
    /\ atFlush.returned = Fired
    /\ \A i \in Fired : hist[i].execs = 1

\* C3: a hook constructed without a backend never panics when its workers
\* run the pipeline, writes no backend error and persists nothing.
C3_DegradedModeNoCrash ==
    opts.exec = "nil" => (~crashed /\ sink = << >> /\ persisted = {})

\* C4: every Fire that has returned has returned nil, whatever the options,
\* the state of the queue and the fate of the entry.
C4_FireReturnsNil ==
    \A i \in Ids : hist[i].ret \in {"none", "nil"}

C4_Witness ==
    /\ opts.exec = "fail"
    /\ sink # << >>
    /\ \E i \in Ids : hist[i].ret = "nil" /\ hist[i].failed = 1
    /\ \E i \in Ids : hist[i].ret = "nil" /\ hist[i].retState = "terminated"

\* C5: with a sink configured, the sink holds one write per failed Exec call
\* whose pipeline has passed the report, each carrying the error's message;
\* Exec is called at most once per entry; and with the backend that always
\* fails with "disk full", once Flush has returned there is one "disk full"
\* write per enqueued entry and nothing is persisted.
C5_FailuresReportedOnce ==
    opts.out = "sink" =>
        /\ Len(sink) + Cardinality({w \in Workers : wpc[w] = "report" /\ werr[w] # NoErr})
              = SumFailed(MaxFires)
        /\ \A i \in Ids : hist[i].execs <= 1
        /\ \A k \in 1..Len(sink) :
              /\ sink[k].msg \in {"disk full", "timeout"}
              /\ opts.exec = "fail" => sink[k].msg = "disk full"
        /\ (opts.exec = "fail" /\ flushpc = "returned") =>
              /\ Len(sink) = Cardinality({i \in Ids : hist[i].enq})
              /\ atFlush.returned \subseteq {i \in Ids : hist[i].enq}
              /\ persisted = {}

C5_Witness ==
    /\ opts.out = "sink"
    /\ opts.exec = "fail"
    /\ flushpc = "returned"
    /\ Len(sink) = MaxFires
    /\ persisted = {}

\* C6: the buffer never holds more jobs than the configured capacity; a
\* Fire facing a full buffer of a running queue cannot return; and every
\* Fire that returned while the queue was running has enqueued its entry.
C6_Backpressure ==
    /\ Len(buf) <= opts.maxQueues
    /\ \A p \in Producers :
          (ppc[p] = "push" /\ q.state = "running" /\ Len(buf) = opts.maxQueues) =>
              ~ENABLED FirePush(p)
    /\ \A i \in Ids :
          (hist[i].ret # "none" /\ hist[i].retState = "running") => hist[i].enq

C6_Witness ==
    \E p \in Producers :
        /\ ppc[p] = "push"
        /\ q.state = "running"
        /\ Len(buf) = opts.maxQueues
        /\ \A w \in Workers : w <= opts.maxWorkers => wpc[w] # "idle"

\* C7: in every state in which Flush has returned the buffer is empty, no
\* worker is inside a pipeline, and every job that was buffered or in flight
\* when Flush was called has completed.
C7_FlushDrains ==
    flushpc = "returned" =>
        /\ buf = << >>
        /\ \A w \in Workers : wpc[w] = "idle" /\ wjob[w] = NoJob
        /\ \A i \in atFlush.pending : hist[i].done

C7_Witness ==
    /\ flushpc = "returned"
    /\ Cardinality(atFlush.pending) >= 2
    /\ \A i \in atFlush.pending : hist[i].done

\* C8: an entry whose Fire started after Flush returned is never enqueued
\* and never passed to Exec, that Fire is not blocked and returns nil, and
\* after Flush returned no worker holds or takes a job.
C8_NoWorkAfterFlush ==
    /\ \A i \in Ids :
          hist[i].startedAfterFlush =>
              /\ hist[i].execs = 0
              /\ ~hist[i].enq
              /\ hist[i].ret \in {"none", "nil"}
              /\ \A w \in Workers : wjob[w].id # i
    /\ \A p \in Producers :
          (ppc[p] = "push" /\ flushpc = "returned" /\ ~crashed) => ENABLED FirePush(p)
    /\ flushpc = "returned" => \A w \in Workers : ~ENABLED WorkerTake(w)

C8_Witness ==
    \E i \in Ids :
        /\ hist[i].startedAfterFlush
        /\ hist[i].ret = "nil"
        /\ hist[i].execs = 0
        /\ \E j \in Ids : hist[j].execs = 1

\* C9: when the merge step of a pipeline is over, the entry's field map has
\* exactly the keys of the submitted entry and of the extras; a key of the
\* entry keeps the entry's value, a key of the extras alone has the extra's.
C9_MergePrecedence ==
    \A w \in Workers :
        wpc[w] = "filter" =>
            IsInputPlusExtras(wjob[w].data, hist[wjob[w].id].submitted, opts.extra)

C9_Witness ==
    \E w \in Workers :
        /\ wpc[w] = "filter"
        /\ opts.extra = BothExtra
        /\ hist[wjob[w].id].submitted = Fields({"a"}, "entry")
        /\ wjob[w].data = [a |-> "entry", b |-> "extra"]

\* C10: with a filter that returns its input, as with no filter, the entry
\* passed to Exec is the submitted entry plus the extras.
C10_IdentityFilter ==
    opts.filter \in {"identity", "nil"} =>
        \A i \in Ids :
            hist[i].execs > 0 =>
                IsInputPlusExtras(hist[i].execArg, hist[i].submitted, opts.extra)

C10_Witness ==
    /\ opts.filter = "identity"
    /\ \E i \in Ids :
          /\ hist[i].execs = 1
          /\ hist[i].submitted = Fields({"a"}, "entry")
          /\ hist[i].execArg = [a |-> "entry", b |-> "extra"]

\* The entry of job j is what Fire copied: the fields, time, level and
\* message the producer's entry had at the copy.
SameAsAtCopy(j) ==
    /\ j.data = hist[j.id].submitted
    /\ j.time = FiredValues.time
    /\ j.level = FiredValues.level
    /\ j.msg = FiredValues.msg

\* C11: whatever the producer does to its entry after Fire returned, a job
\* waiting in the buffer or taken by a worker still holds the fields, time,
\* level and message of the moment of the copy, the pipeline and Exec see
\* those fields plus the extras, and the producer's entry holds either what
\* it held at the copy or what the producer put there, never a write of the
\* pipeline; while Fire has not returned the snapshot equals the original.
C11_SnapshotIndependent ==
    /\ \A p \in Producers :
          ppc[p] = "push" =>
              /\ SameAsAtCopy(pjob[p])
              /\ pjob[p].data = orig[pjob[p].id].data
              /\ pjob[p].time = orig[pjob[p].id].time
              /\ pjob[p].level = orig[pjob[p].id].level
              /\ pjob[p].msg = orig[pjob[p].id].msg
    /\ \A k \in 1..Len(buf) : SameAsAtCopy(buf[k])
    /\ \A w \in Workers :
          /\ wpc[w] = "merge" => SameAsAtCopy(wjob[w])
          /\ (wpc[w] \in {"filter", "exec", "report"} /\ opts.filter = "nil") =>
                /\ IsInputPlusExtras(wjob[w].data, hist[wjob[w].id].submitted, opts.extra)
                /\ wjob[w].msg = FiredValues.msg
                /\ wjob[w].level = FiredValues.level
                /\ wjob[w].time = FiredValues.time
    /\ \A i \in Fired :
          /\ (hist[i].execs > 0 /\ opts.filter = "nil") =>
                IsInputPlusExtras(hist[i].execArg, hist[i].submitted, opts.extra)
          /\ \/ /\ orig[i].data = hist[i].submitted
                /\ orig[i].msg = FiredValues.msg
                /\ orig[i].level = FiredValues.level
                /\ orig[i].time = FiredValues.time
             \/ /\ orig[i].data = ReusedData
                /\ orig[i].msg = ReusedValues.msg
                /\ orig[i].level = ReusedValues.level
                /\ orig[i].time = ReusedValues.time

C11_Witness ==
    \E i \in Fired :
        /\ orig[i].msg = ReusedValues.msg
        /\ orig[i].data = ReusedData
        /\ hist[i].submitted = Fields({"a"}, "entry")
        /\ hist[i].execs = 1
        /\ hist[i].execArg = [a |-> "entry", b |-> "extra"]
        /\ \E j \in Fired :
              /\ orig[j].msg = ReusedValues.msg
              /\ \E w \in Workers : wpc[w] = "merge" /\ wjob[w].id = j

ActiveWorkers == {w \in Workers : w <= opts.maxWorkers}
Hung == {w \in Workers : wpc[w] = "hung"}

\* C12: a Fire that reaches Push while the queue runs and the buffer has a
\* free slot can complete at once, whatever the workers are doing, also when
\* every worker is inside an Exec call that never returns; and it returns nil.
C12_FireNeedsNoWorker ==
    /\ \A p \in Producers :
          (ppc[p] = "push" /\ q.state = "running" /\ Len(buf) < opts.maxQueues) =>
              ENABLED FirePush(p)
    /\ \A i \in Ids : hist[i].ret \in {"none", FireResult}

C12_Witness ==
    \E p \in Producers :
        /\ ppc[p] = "push"
        /\ q.state = "running"
        /\ Len(buf) < opts.maxQueues
        /\ opts.maxWorkers = DefaultMaxWorkers
        /\ Hung = ActiveWorkers
        /\ ENABLED FirePush(p)

\* C13: the jobs whose pipeline is executing are never more than the
\* configured worker count, and the queue's worker count and capacity are
\* in every state the ones the hook was constructed with.
C13_BoundedParallelism ==
    /\ Cardinality({w \in Workers : wpc[w] # "idle"}) <= opts.maxWorkers
    /\ Cardinality(InFlight) <= opts.maxWorkers
    /\ q.workers = opts.maxWorkers
    /\ q.cap = opts.maxQueues

C13_Witness ==
    /\ opts.maxWorkers = DefaultMaxWorkers
    /\ Cardinality(InFlight) = opts.maxWorkers
    /\ \A w \in Workers : wpc[w] \in {"filter", "exec", "report"}
    /\ buf # << >>

\* Job i has left the buffer for a worker.
Taken(i) == hist[i].enq /\ i \notin Buffered

\* C14: of two entries fired by the same producer, the later one is never
\* taken from the buffer while the earlier one has not been, and with a
\* single worker never passed to Exec while the earlier one has not been.
C14_FifoPerProducer ==
    \A i \in Fired : \A j \in Fired :
        (i < j /\ hist[i].by = hist[j].by) =>
            /\ Taken(j) => Taken(i)
            /\ hist[j].enq => hist[i].enq
            /\ (opts.maxWorkers = 1 /\ hist[j].execs > 0) => hist[i].execs > 0

C14_Witness ==
    /\ opts.maxWorkers = 1
    /\ \E i \in Fired : \E j \in Fired : \E k \in Fired :
          /\ i < j
          /\ hist[i].by = hist[j].by
          /\ hist[k].by # hist[i].by
          /\ hist[i].execs = 1 /\ hist[j].execs = 1 /\ hist[k].execs = 1

\* The frames of the inspected window of a stack that do not belong to the
\* logging library.
Qualifying(stack) ==
    {k \in 1..WindowSize : k <= Len(stack) /\ stack[k] = "app"}

First(S) == CHOOSE k \in S : \A m \in S : k <= m

HasSite(data, k) ==
    /\ {"file", "func"} \subseteq DOMAIN data
    /\ data["file"] = SiteFile(k)
    /\ data["func"] = SiteFunc(k)

\* C15: when Fire has run its call-site part on an entry with caller
\* metadata, the entry's file and func are those of the first frame of the
\* window that is not the logging library's; when no frame of the window
\* qualifies they are those of the fixed-depth lookup, whenever that
\* lookup finds a frame (it finds none under a stack that ends inside the
\* window, in particular when the window is empty).
C15_CallSiteSelection ==
    \A p \in Producers :
        (ppc[p] = "push" /\ orig[pjob[p].id].caller) =>
            LET data == orig[pjob[p].id].data
                stack == pstack[p]
            IN
            /\ Qualifying(stack) # {} => HasSite(data, First(Qualifying(stack)))
            /\ (Qualifying(stack) = {} /\ Len(stack) >= FallbackIndex) =>
                  HasSite(data, FallbackIndex)
            /\ HasSite(data, FallbackIndex) => Qualifying(stack) = {}
            /\ pjob[p].data = data

C15_Witness ==
    \E p \in Producers :
        /\ ppc[p] = "push"
        /\ orig[pjob[p].id].caller
        /\ pstack[p] = <<"logrus", "app", "logrus", "app">>
        /\ HasSite(pjob[p].data, 2)
        /\ \E i \in Fired : hist[i].execs = 1 /\ HasSite(hist[i].execArg, FallbackIndex)

\* C16: an entry without caller metadata, or fired under a stack in which no
\* frame can be resolved, leaves Fire with exactly the fields it was given,
\* without file and func, and so does its snapshot; such an entry is
\* enqueued like any other (a Fire that returned while the queue was running
\* has enqueued it) and reaches Exec with the fields given plus the extras.
C16_SilentResolverFailure ==
    /\ \A p \in Producers :
          (/\ ppc[p] = "push"
           /\ \/ ~orig[pjob[p].id].caller
              \/ Qualifying(pstack[p]) = {} /\ Len(pstack[p]) < FallbackIndex) =>
              /\ orig[pjob[p].id].data = hist[pjob[p].id].given
              /\ pjob[p].data = hist[pjob[p].id].given
              /\ "file" \notin DOMAIN pjob[p].data
              /\ "func" \notin DOMAIN pjob[p].data
              /\ (q.state = "running" /\ Len(buf) < opts.maxQueues) => ENABLED FirePush(p)
    /\ \A i \in Fired :
          "file" \notin DOMAIN hist[i].submitted =>
              /\ hist[i].submitted = hist[i].given
              /\ (hist[i].ret # "none" /\ hist[i].retState = "running") => hist[i].enq
              /\ hist[i].execs > 0 =>
                    IsInputPlusExtras(hist[i].execArg, hist[i].given, opts.extra)

C16_Witness ==
    /\ \E p \in Producers :
          /\ ppc[p] = "push"
          /\ orig[pjob[p].id].caller
          /\ pstack[p] = <<"logrus", "logrus">>
          /\ pjob[p].data = Fields({"a"}, "entry")
    /\ \E i \in Fired :
          /\ ~orig[i].caller
          /\ hist[i].execs = 1
          /\ hist[i].execArg = [a |-> "entry", b |-> "extra"]
    /\ \E i \in Fired :
          /\ orig[i].caller
          /\ "file" \notin DOMAIN hist[i].submitted
          /\ hist[i].enq
          /\ hist[i].execs = 1

\* The order in which a worker goes through Hook.exec.
StepOrder ==
    {<<"idle", "merge">>, <<"merge", "filter">>, <<"filter", "exec">>,
     <<"exec", "report">>, <<"exec", "hung">>, <<"report", "idle">>}

Steps(w, from, to) == wpc[w] = from /\ wpc'[w] = to

\* No job is in two places, and a finished job is in none.
JobsApart ==
    /\ \A v, w \in Workers :
          (v # w /\ wpc[v] # "idle" /\ wpc[w] # "idle") => wjob[v].id # wjob[w].id
    /\ \A k, m \in 1..Len(buf) : k # m => buf[k].id # buf[m].id
    /\ InFlight \cap Buffered = {}
    /\ \A i \in Fired : hist[i].done => i \notin InFlight \cup Buffered

\* What Exec must be given for an entry submitted with the fields s.
FilteredMerge(s) ==
    LET xs == IF opts.extra.isNil THEN {} ELSE DOMAIN opts.extra.m
        m == [k \in DOMAIN s \cup xs |->
                IF k \in DOMAIN s THEN s[k] ELSE opts.extra.m[k]]
    IN  IF opts.filter = "redact" THEN Redact(m) ELSE m

\* One step of a worker, in the order of Hook.exec.
OrderedStep(w) ==
    /\ wpc'[w] # wpc[w] => <<wpc[w], wpc'[w]>> \in StepOrder
    /\ Steps(w, "merge", "filter") =>
          IsInputPlusExtras(wjob'[w].data, hist[wjob[w].id].submitted, opts.extra)
    /\ Steps(w, "filter", "exec") =>
          /\ IsInputPlusExtras(wjob[w].data, hist[wjob[w].id].submitted, opts.extra)
          /\ wjob'[w].data = (IF opts.filter = "redact" THEN Redact(wjob[w].data)
                              ELSE wjob[w].data)
    /\ (Steps(w, "exec", "report") \/ Steps(w, "exec", "hung")) =>
          /\ hist'[wjob[w].id].execArg = wjob[w].data
          /\ hist'[wjob[w].id].execs = hist[wjob[w].id].execs + 1

\* The sink is written by a worker that leaves Hook.exec after its Exec call
\* returned an error.
WriteAfterError ==
    sink' # sink =>
        \E w \in Workers :
            /\ Steps(w, "report", "idle")
            /\ werr[w] # NoErr
            /\ hist[wjob[w].id].execs = 1
            /\ hist[wjob[w].id].failed = 1

\* C17: a worker goes through merge, filter, Exec and the diagnostic write in
\* that order, each at most once per job: the filter is given the entry with
\* the extras merged, Exec is given what the filter returned, and the sink is
\* written only by a worker whose Exec call on its job returned an error.
C17_PipelineOrder ==
    /\ [](/\ JobsApart
          /\ \A i \in Fired :
                /\ hist[i].execs <= 1
                /\ hist[i].execs = 1 =>
                      hist[i].execArg = FilteredMerge(hist[i].submitted))
    /\ [][(\A w \in Workers : OrderedStep(w)) /\ WriteAfterError]_vars

C17_Witness ==
    /\ opts.filter = "redact"
    /\ opts.extra = BothExtra
    /\ \E i \in Fired :
          /\ hist[i].submitted = EmptyFields
          /\ hist[i].done
          /\ hist[i].execArg = [a |-> "***", b |-> "extra"]
          /\ sink # << >>

\* C18: no step of Fire, of the pipeline or of Flush changes the options
\* New captured (backend, filter, sink, extras map, capacity, worker count),
\* nor the capacity and worker count the queue was built with.
C18_OptionsReadOnly ==
    [][/\ opts' = opts
       /\ q'.cap = q.cap
       /\ q'.workers = q.workers]_vars

C18_Witness ==
    /\ opts.extra = [isNil |-> FALSE, m |-> Fields({"b"}, "extra")]
    /\ opts.filter = "redact"
    /\ flushpc = "returned"
    /\ \E i \in Fired :
          /\ hist[i].done
          /\ hist[i].execArg = [a |-> "***", b |-> "extra"]
    /\ q.cap = opts.maxQueues
    /\ q.workers = opts.maxWorkers

\* C19: a worker inside an Exec call that never returns stays there, and
\* Flush does not return while there is one; a job waiting in the buffer
\* while one of two workers is stuck is still passed to Exec unless the
\* other worker gets stuck too; and a Flush that was called returns unless
\* some Exec call never returns.
C19_FlushTerminatesWithBackend ==
    /\ [](Hung # {} => flushpc # "returned")
    /\ [][\A w \in Workers : wpc[w] = "hung" => wpc'[w] = "hung"]_vars
    /\ \A i \in Ids :
          (i \in Buffered /\ opts.maxWorkers = 2 /\ Cardinality(Hung) = 1)
              ~> (hist[i].execs = 1 \/ Cardinality(Hung) = 2)
    /\ (flushpc = "waiting") ~> (flushpc = "returned" \/ Hung # {})

C19_Witness ==
    /\ opts.maxWorkers = 2
    /\ flushpc = "waiting"
    /\ buf = << >>
    /\ \E w \in Workers :
          /\ Hung = {w}
          /\ \A v \in Workers \ {w} : wpc[v] = "idle"
          /\ \E i \in Fired : i > wjob[w].id /\ hist[i].done

====
